---- MODULE Spec2Model ----
(***************************************************************************)
(* Model of custom/triplane/geometry/utils.py: the multiscale K-plane      *)
(* feature encoder (class KPlane) and the grid sampling primitive          *)
(* (grid_sample_wrapper).                                                  *)
(*                                                                         *)
(* Numbers.  Plane values and features are fixed-point: a plane cell holds *)
(* an integer number of tenths (One = 1.0, UniformA = 0.1, UniformB = 0.5).*)
(* A feature tensor carries the number `exp` of plane samples that were    *)
(* multiplied into it, so its entries are in units of 10^-exp.             *)
(* Axis indices are 0-based as in the source; sequences are 1-based, so    *)
(* axis c of a resolution list reso is reso[c + 1].                        *)
(* Point coordinates are the corners -1 and +1 and the out-of-range values *)
(* -2 and +2, where border-clamped, corner-aligned sampling reads exactly  *)
(* one cell.                                                               *)
(***************************************************************************)
EXTENDS Integers, Sequences, FiniteSets, TLC

(* ------------------------------ bounds -------------------------------- *)
MaxInDim == 5
MaxPlanes == 6
MaxOutDim == 2
MaxPoints == 2

(* ------------------------- program constants -------------------------- *)
One == 10
UniformA == 1
UniformB == 5
TimeDim == 4
TimeAxis == 3
SpatialAxes == 3

(* multiscale_res values a configuration may carry; isNone is "not set"   *)
None == [isNone |-> TRUE, val |-> <<>>]
Some(s) == [isNone |-> FALSE, val |-> s]
MultiscaleChoices == {None, Some(<<>>), Some(<<2>>), Some(<<2, 1>>)}

(* the resolution list of length len given in a configuration: 2,1,2,1,.. *)
ResolutionOf(len) == [i \in 1..len |-> 1 + (i % 2)]

(* initial states of the random generator (torch.manual_seed)             *)
Seeds == {0, 2}

(* the four points of dimension dim used in point batches                 *)
PointOf(dim, k) ==
    [i \in 1..dim |->
        CASE k = 0 -> -1
          [] k = 1 -> 1
          [] k = 2 -> IF i % 2 = 1 THEN -2 ELSE 2
          [] OTHER -> IF i % 2 = 1 THEN 1 ELSE -1]

(* a batch of n points of dimension dim: shape [n, dim] *)
BatchOf(n, dim, k) == [j \in 1..n |-> PointOf(dim, (k + j - 1) % 4)]

(* ------------------------------ helpers ------------------------------- *)
RECURSIVE Prod(_)
Prod(s) == IF s = <<>> THEN 1 ELSE Head(s) * Prod(Tail(s))

RECURSIVE Pow10(_)
Pow10(n) == IF n = 0 THEN 1 ELSE 10 * Pow10(n - 1)

Reverse(s) == [i \in 1..Len(s) |-> s[Len(s) + 1 - i]]

Range(s) == {s[i] : i \in 1..Len(s)}

PrependAll(a, ss) == [i \in 1..Len(ss) |-> <<a>> \o ss[i]]

(* itertools.combinations(range(n), k), as 0-based tuples, in the order   *)
(* itertools emits them; lo is the smallest index still available         *)
RECURSIVE CombsFrom(_, _, _)
CombsFrom(lo, n, k) ==
    IF k = 0 THEN << <<>> >>
    ELSE IF lo >= n THEN <<>>
    ELSE PrependAll(lo, CombsFrom(lo + 1, n, k - 1)) \o CombsFrom(lo + 1, n, k)

(* a faulty enumeration: the same combinations, last one first *)
CombinationsReversed(n, k) == Reverse(CombsFrom(0, n, k))

Combinations(n, k) == CombsFrom(0, n, k)

(* `config.multiscale_res or [1]` *)
MultipliersOf(msr) == IF msr.isNone \/ msr.val = <<>> THEN <<1>> ELSE msr.val

(* [r * res for r in resolution[:3]] + resolution[3:] *)
DeriveResolution(resolution, res) ==
    [i \in 1..Len(resolution) |->
        IF i <= SpatialAxes THEN resolution[i] * res ELSE resolution[i]]

(* shape of the plane of one combination *)
PlaneShape(out_dim, reso, coo_comb) ==
    <<1, out_dim>> \o [j \in 1..Len(coo_comb) |-> reso[Reverse(coo_comb)[j] + 1]]

(* nn.init.ones_ *)
OnesFill(numel) == [j \in 1..numel |-> One]

(* nn.init.uniform_(a, b): the values depend on the generator state rng   *)
UniformFill(numel, rng) ==
    [j \in 1..numel |-> UniformA + ((rng + j) % (UniformB - UniformA + 1))]

AdvanceRng(numel, rng) == (rng + numel) % (UniformB - UniformA + 1)

(* a faulty test for time planes: the input dimensionality is not checked *)
IsTimePlaneAnyDim(in_dim, coo_comb) == TimeAxis \in Range(coo_comb)

IsTimePlane(in_dim, coo_comb) == in_dim = TimeDim /\ TimeAxis \in Range(coo_comb)

(* one iteration of the loop over coo_combs in _init_grid_param *)
NewGridCoef(in_dim, out_dim, reso, coo_comb, rng) ==
    LET shape == PlaneShape(out_dim, reso, coo_comb)
    IN  [shape |-> shape,
         comb  |-> coo_comb,
         data  |-> IF IsTimePlane(in_dim, coo_comb)
                   THEN OnesFill(Prod(shape))
                   ELSE UniformFill(Prod(shape), rng)]

RngAfterCoef(in_dim, out_dim, reso, coo_comb, rng) ==
    IF IsTimePlane(in_dim, coo_comb) THEN rng
    ELSE AdvanceRng(Prod(PlaneShape(out_dim, reso, coo_comb)), rng)

RECURSIVE GridCoefs(_, _, _, _, _)
GridCoefs(in_dim, out_dim, reso, coo_combs, rng) ==
    IF coo_combs = <<>> THEN [planes |-> <<>>, rng |-> rng]
    ELSE LET p    == NewGridCoef(in_dim, out_dim, reso, Head(coo_combs), rng)
             rest == GridCoefs(in_dim, out_dim, reso, Tail(coo_combs),
                               RngAfterCoef(in_dim, out_dim, reso, Head(coo_combs), rng))
         IN  [planes |-> <<p>> \o rest.planes, rng |-> rest.rng]

(* KPlane._init_grid_param *)
InitGridParam(grid_nd, in_dim, out_dim, reso, rng) ==
    IF in_dim # Len(reso) THEN [err |-> "AssertionError", planes |-> <<>>, rng |-> rng]
    ELSE IF ~(grid_nd <= in_dim) THEN [err |-> "AssertionError", planes |-> <<>>, rng |-> rng]
    ELSE LET g == GridCoefs(in_dim, out_dim, reso, Combinations(in_dim, grid_nd), rng)
         IN  [err |-> "none", planes |-> g.planes, rng |-> g.rng]

(* the local `config` of one loop iteration of KPlane.__init__: a copy of  *)
(* self.grid_config whose resolution is replaced by the derived one       *)
ScaleConfig(grid_config, res) ==
    [grid_config EXCEPT !.resolution = DeriveResolution(grid_config.resolution, res)]

(* a faulty iteration: no copy is taken, the assignment hits the stored   *)
(* grid_config                                                            *)
StoredAfterScaleAliased(grid_config, res) == ScaleConfig(grid_config, res)

(* self.grid_config after that iteration: the assignment went to the copy *)
StoredAfterScale(grid_config, res) == grid_config

(* the loop over self.multiscale_res_multipliers in KPlane.__init__;      *)
(* grid_config is self.grid_config as the iteration finds it              *)
RECURSIVE BuildGrids(_, _, _)
BuildGrids(grid_config, multipliers, rng) ==
    IF multipliers = <<>>
    THEN [err |-> "none", grids |-> <<>>, rng |-> rng, grid_config |-> grid_config]
    ELSE LET config == ScaleConfig(grid_config, Head(multipliers))
             gp     == InitGridParam(config.grid_dimensions,
                                     config.input_coordinate_dim,
                                     config.output_coordinate_dim,
                                     config.resolution, rng)
         IN  IF gp.err # "none"
             THEN [err |-> gp.err, grids |-> <<>>, rng |-> gp.rng,
                   grid_config |-> grid_config]
             ELSE LET rest == BuildGrids(StoredAfterScale(grid_config, Head(multipliers)),
                                         Tail(multipliers), gp.rng)
                  IN  IF rest.err # "none" THEN rest
                      ELSE [rest EXCEPT !.grids = <<gp.planes>> \o @]

(* the n_output_dims assignment of KPlane.__init__: len(config.multiscale_res) *)
NOutputDims(cfg) ==
    IF cfg.concat_features_across_scales
    THEN IF cfg.multiscale_res.isNone
         THEN [err |-> "TypeError", val |-> 0]
         ELSE [err |-> "none",
               val |-> cfg.grid_config.output_coordinate_dim * Len(cfg.multiscale_res.val)]
    ELSE [err |-> "none", val |-> cfg.grid_config.output_coordinate_dim]

(* ------------------------------ tensors ------------------------------- *)
(* kind "float" is a Python float, kind "tensor" a torch tensor           *)
Float(v) == [kind |-> "float", shape |-> <<>>, data |-> <<v>>, exp |-> 0]
NoValue == [kind |-> "none", shape |-> <<>>, data |-> <<>>, exp |-> 0]

(* Tensor.squeeze(): every dimension of size 1 is dropped *)
Squeeze(shape) == SelectSeq(shape, LAMBDA d : d # 1)

(* Tensor.view(-1, feature_dim) *)
View(t, feature_dim) ==
    [t EXCEPT !.shape = <<Len(t.data) \div feature_dim, feature_dim>>]

(* unnormalised, border-clamped index along an axis of `size` cells, for  *)
(* align_corners=True: -1 is cell 0 and +1 is cell size-1                 *)
SampleIndex(size, q) == IF q <= -1 THEN 0 ELSE size - 1

(* row-major offset of the cell the coordinates q select; q[1] (x) runs   *)
(* along the last spatial dimension                                       *)
RECURSIVE CellOffset(_, _, _)
CellOffset(spatial, q, d) ==
    IF d = 0 THEN 0
    ELSE CellOffset(spatial, q, d - 1) * spatial[d]
         + SampleIndex(spatial[d], q[Len(spatial) + 1 - d])

(* F.grid_sample at one point, channel c (1-based), batch entry 1 *)
CellValue(gshape, gdata, c, q) ==
    LET spatial == SubSeq(gshape, 3, Len(gshape))
    IN  gdata[(c - 1) * Prod(spatial) + CellOffset(spatial, q, Len(spatial)) + 1]

(* a faulty wrapper: the check that grid_dim is 2 or 3 is missing *)
GridSampleWrapperAnyDim(grid, coords) ==
    LET feature_dim == grid.shape[2]
        n           == Len(coords)
    IN  [err |-> "none",
         val |-> [kind  |-> "tensor",
                  shape |-> Squeeze(<<1, n, feature_dim>>),
                  data  |-> [k \in 1..(n * feature_dim) |->
                               CellValue(grid.shape, grid.data,
                                         ((k - 1) % feature_dim) + 1,
                                         coords[((k - 1) \div feature_dim) + 1])],
                  exp   |-> 1]]

(* grid_sample_wrapper(grid, coords) for coords of shape [n, grid_dim] *)
GridSampleWrapper(grid, coords) ==
    LET grid_dim == Len(coords[1])
        gshape   == IF Len(grid.shape) = grid_dim + 1
                    THEN <<1>> \o grid.shape ELSE grid.shape
        B           == gshape[1]
        feature_dim == gshape[2]
        n           == Len(coords)
    IN  IF ~(grid_dim = 2 \/ grid_dim = 3)
        THEN [err |-> "NotImplementedError", val |-> NoValue]
        ELSE IF Len(gshape) # grid_dim + 2 \/ B # 1
        THEN [err |-> "RuntimeError", val |-> NoValue]
        ELSE [err |-> "none",
              val |-> [kind  |-> "tensor",
                       shape |-> Squeeze(<<B, n, feature_dim>>),
                       data  |-> [k \in 1..(n * feature_dim) |->
                                    CellValue(gshape, grid.data,
                                              ((k - 1) % feature_dim) + 1,
                                              coords[((k - 1) \div feature_dim) + 1])],
                       exp   |-> 1]]

(* pts[..., coo_comb] *)
Project(pts, coo_comb) ==
    [j \in 1..Len(pts) |-> [i \in 1..Len(coo_comb) |-> pts[j][coo_comb[i] + 1]]]

(* a faulty composition: the plane features are added, not multiplied *)
MulAdds(a, b) ==
    [kind  |-> "tensor", shape |-> b.shape,
     data  |-> [k \in 1..Len(b.data) |->
                  (IF a.kind = "float" THEN a.data[1] ELSE a.data[k]) + b.data[k]],
     exp   |-> a.exp + b.exp]

(* a * b for a Python float or tensor a and a tensor b of the same shape *)
Mul(a, b) ==
    [kind  |-> "tensor", shape |-> b.shape,
     data  |-> [k \in 1..Len(b.data) |->
                  (IF a.kind = "float" THEN a.data[1] ELSE a.data[k]) * b.data[k]],
     exp   |-> a.exp + b.exp]

(* a + b; Python floats add to a float *)
Add(a, b) ==
    IF b.kind = "float"
    THEN [kind |-> a.kind, shape |-> a.shape,
          data |-> [k \in 1..Len(a.data) |-> a.data[k] + b.data[1]], exp |-> a.exp]
    ELSE [kind |-> "tensor", shape |-> b.shape,
          data |-> [k \in 1..Len(b.data) |->
                      (IF a.kind = "float" THEN a.data[1] ELSE a.data[k]) + b.data[k]],
          exp  |-> b.exp]

RECURSIVE SumWidths(_)
SumWidths(ts) == IF ts = <<>> THEN 0 ELSE Head(ts).shape[2] + SumWidths(Tail(ts))

RECURSIVE CatRow(_, _)
CatRow(ts, r) ==
    IF ts = <<>> THEN <<>>
    ELSE LET w == Head(ts).shape[2]
         IN  SubSeq(Head(ts).data, (r - 1) * w + 1, r * w) \o CatRow(Tail(ts), r)

RECURSIVE CatRows(_, _, _)
CatRows(ts, r, n) == IF r > n THEN <<>> ELSE CatRow(ts, r) \o CatRows(ts, r + 1, n)

(* torch.cat(ts, dim=-1) of [n, w_i] tensors; a Python float is rejected *)
Cat(ts) ==
    IF \E i \in 1..Len(ts) : ts[i].kind # "tensor"
    THEN [err |-> "TypeError", val |-> NoValue]
    ELSE [err |-> "none",
          val |-> [kind  |-> "tensor",
                   shape |-> <<ts[1].shape[1], SumWidths(ts)>>,
                   data  |-> CatRows(ts, 1, ts[1].shape[1]),
                   exp   |-> ts[1].exp]]

(* ------------------------ _interpolate_ms_feature --------------------- *)
(* the loop over coo_combs for one scale, from 0-based index ci on;       *)
(* visited lists the (plane index, combination) pairs the loop reached    *)
RECURSIVE InterpSpace(_, _, _, _, _)
InterpSpace(grid, pts, coo_combs, ci, interp_space) ==
    IF ci >= Len(coo_combs)
    THEN [err |-> "none", val |-> interp_space, visited |-> <<>>]
    ELSE IF ci >= Len(grid)
    THEN [err |-> "IndexError", val |-> NoValue, visited |-> <<>>]
    ELSE LET feature_dim == grid[ci + 1].shape[2]
             sampled     == GridSampleWrapper(grid[ci + 1], Project(pts, coo_combs[ci + 1]))
             here        == << [ci |-> ci, comb |-> coo_combs[ci + 1]] >>
         IN  IF sampled.err # "none"
             THEN [err |-> sampled.err, val |-> NoValue, visited |-> here]
             ELSE LET rest == InterpSpace(grid, pts, coo_combs, ci + 1,
                                          Mul(interp_space, View(sampled.val, feature_dim)))
                  IN  [rest EXCEPT !.visited = here \o @]

(* the loop over scales, from 1-based position scale on; list and sum are *)
(* multi_scale_interp in the concatenating and in the summing mode        *)
RECURSIVE InterpScales(_, _, _, _, _, _, _)
InterpScales(ms_grids, pts, coo_combs, concat_features, scale, list, sum) ==
    IF scale > Len(ms_grids)
    THEN [err |-> "none", list |-> list, sum |-> sum, visited |-> <<>>]
    ELSE LET one  == InterpSpace(ms_grids[scale], pts, coo_combs, 0, Float(1))
             here == [i \in 1..Len(one.visited) |->
                        [scale_id |-> scale - 1, ci |-> one.visited[i].ci,
                         comb |-> one.visited[i].comb]]
         IN  IF one.err # "none"
             THEN [err |-> one.err, list |-> <<>>, sum |-> NoValue, visited |-> here]
             ELSE LET rest == InterpScales(ms_grids, pts, coo_combs, concat_features,
                                 scale + 1,
                                 IF concat_features THEN Append(list, one.val) ELSE list,
                                 IF concat_features THEN sum ELSE Add(sum, one.val))
                  IN  [rest EXCEPT !.visited = here \o @]

(* KPlane._interpolate_ms_feature with num_levels = None *)
InterpolateMsFeature(pts, ms_grids, grid_dimensions, concat_features) ==
    LET coo_combs  == Combinations(Len(pts[1]), grid_dimensions)
        num_levels == Len(ms_grids)
        loop == InterpScales(SubSeq(ms_grids, 1, num_levels), pts, coo_combs,
                             concat_features, 1, <<>>, Float(0))
    IN  IF loop.err # "none"
        THEN [status |-> loop.err, value |-> NoValue, visited |-> loop.visited]
        ELSE IF concat_features
        THEN LET c == Cat(loop.list)
             IN  [status |-> IF c.err = "none" THEN "ok" ELSE c.err,
                  value |-> c.val, visited |-> loop.visited]
        ELSE [status |-> "ok", value |-> loop.sum, visited |-> loop.visited]

(* a faulty accessor: combination-major, scale-minor order *)
FieldParamsCombMajor(ms_grids, scale) ==
    [j \in 1..(Len(ms_grids) * Len(ms_grids[1])) |->
        [scale_id |-> (j - 1) % Len(ms_grids), ci |-> (j - 1) \div Len(ms_grids)]]

(* KPlane.get_params: the planes, by identity (scale, index), in the      *)
(* order of self.grids.named_parameters                                   *)
RECURSIVE FieldParams(_, _)
FieldParams(ms_grids, scale) ==
    IF scale > Len(ms_grids) THEN <<>>
    ELSE [i \in 1..Len(ms_grids[scale]) |-> [scale_id |-> scale - 1, ci |-> i - 1]]
         \o FieldParams(ms_grids, scale + 1)

(* ------------------------------- state -------------------------------- *)
VARIABLES
    config,          \* the configuration handed to KPlane(...)
    rng,             \* state of the global random generator
    pc,              \* "new", "ready" (constructed) or "failed" (__init__ raised)
    init_error,      \* the exception __init__ raised, or "none"
    grid_config,     \* self.grid_config
    multiscale_res_multipliers,
    n_output_dims,
    concat_features,
    grids,           \* self.grids: a list (scales) of lists of planes
    out,             \* the forward call whose result the caller holds
    params           \* the latest get_params() result

vars == <<config, rng, pc, init_error, grid_config, multiscale_res_multipliers,
          n_output_dims, concat_features, grids, out, params>>

encoder == <<grid_config, multiscale_res_multipliers, n_output_dims,
             concat_features, grids>>

NotCalled == [called |-> FALSE, pts |-> <<>>, status |-> "none", value |-> NoValue,
              visited |-> <<>>]
NoParams == [field |-> <<>>]
NoGridConfig == [grid_dimensions |-> 0, input_coordinate_dim |-> 0,
                 output_coordinate_dim |-> 0, resolution |-> <<>>]

Configs ==
    { [grid_config |-> [grid_dimensions |-> k, input_coordinate_dim |-> d,
                        output_coordinate_dim |-> o, resolution |-> ResolutionOf(l)],
       multiscale_res |-> m,
       concat_features_across_scales |-> c] :
        k \in 1..MaxInDim, d \in 3..MaxInDim, o \in 1..MaxOutDim,
        l \in 2..(MaxInDim + 1), m \in MultiscaleChoices, c \in BOOLEAN }

(* configurations explored: the resolution list is one too short, right   *)
(* or one too long, and a scale has at most MaxPlanes planes              *)
Explored(c) ==
    /\ c.grid_config.input_coordinate_dim - Len(c.grid_config.resolution) \in {-1, 0, 1}
    /\ Len(Combinations(c.grid_config.input_coordinate_dim,
                        c.grid_config.grid_dimensions)) <= MaxPlanes

Init ==
    /\ config \in {c \in Configs : Explored(c)}
    /\ rng \in Seeds
    /\ pc = "new"
    /\ init_error = "none"
    /\ grid_config = NoGridConfig
    /\ multiscale_res_multipliers = <<>>
    /\ n_output_dims = 0
    /\ concat_features = FALSE
    /\ grids = <<>>
    /\ out = NotCalled
    /\ params = NoParams

(* KPlane.__init__ *)
Construct ==
    /\ pc = "new"
    /\ LET multipliers == MultipliersOf(config.multiscale_res)
           nod         == NOutputDims(config)
           built       == BuildGrids(config.grid_config, multipliers, rng)
       IN  IF nod.err # "none"
           THEN /\ pc' = "failed"
                /\ init_error' = nod.err
                /\ UNCHANGED <<rng, encoder>>
           ELSE IF built.err # "none"
           THEN /\ pc' = "failed"
                /\ init_error' = built.err
                /\ rng' = built.rng
                /\ UNCHANGED encoder
           ELSE /\ pc' = "ready"
                /\ init_error' = "none"
                /\ rng' = built.rng
                /\ grid_config' = built.grid_config
                /\ multiscale_res_multipliers' = multipliers
                /\ n_output_dims' = nod.val
                /\ concat_features' = config.concat_features_across_scales
                /\ grids' = built.grids
    /\ UNCHANGED <<config, out, params>>

(* KPlane.forward(x); the caller holds no result, or repeats the call     *)
(* whose result it holds                                                  *)
ForwardOn(x) ==
    /\ pc = "ready"
    /\ ~out.called \/ out.pts = x
    /\ LET r == InterpolateMsFeature(x, grids, grid_config.grid_dimensions,
                                     concat_features)
       IN  out' = [called |-> TRUE, pts |-> x, status |-> r.status,
                   value |-> r.value, visited |-> r.visited]
    /\ UNCHANGED <<config, rng, pc, init_error, encoder, params>>

(* forward on the k-th point batch of shape [n, dim] *)
Forward(n, dim, k) == ForwardOn(BatchOf(n, dim, k))

(* the caller drops the result of forward *)
Discard ==
    /\ out.called
    /\ out' = NotCalled
    /\ UNCHANGED <<config, rng, pc, init_error, encoder, params>>

(* KPlane.get_params() *)
GetParams ==
    /\ pc = "ready"
    /\ params' = [field |-> FieldParams(grids, 1)]
    /\ UNCHANGED <<config, rng, pc, init_error, encoder, out>>

(* An external optimizer step on the parameters get_params handed out:    *)
(* every plane becomes constant 1, except that the z-th parameter (z > 0) *)
(* gets a 0 in its first cell.                                            *)
SteppedData(numel, zeroed) ==
    [j \in 1..numel |-> IF zeroed /\ j = 1 THEN 0 ELSE One]

OptimizerStep(z) ==
    /\ pc = "ready"
    /\ params.field # <<>>
    /\ grids' = [s \in 1..Len(grids) |-> [i \in 1..Len(grids[s]) |->
           IF \E j \in 1..Len(params.field) :
                 params.field[j] = [scale_id |-> s - 1, ci |-> i - 1]
           THEN [grids[s][i] EXCEPT !.data =
                   SteppedData(Len(grids[s][i].data),
                               z > 0 /\ params.field[z] = [scale_id |-> s - 1, ci |-> i - 1])]
           ELSE grids[s][i]]]
    /\ out' = NotCalled
    /\ UNCHANGED <<config, rng, pc, init_error, grid_config,
                   multiscale_res_multipliers, n_output_dims, concat_features, params>>

Next ==
    \/ Construct
    \/ \E n \in 1..MaxPoints, k \in {0, 2} :
          \E dim \in {grid_config.input_coordinate_dim - 1,
                      grid_config.input_coordinate_dim,
                      grid_config.input_coordinate_dim + 1} : Forward(n, dim, k)
    \/ Discard
    \/ GetParams
    \/ \E z \in {0, 1, Len(params.field)} : OptimizerStep(z)

Spec == Init /\ [][Next]_vars

(* ------------------------- notions used in the claims ----------------- *)
D == config.grid_config.input_coordinate_dim
K == config.grid_config.grid_dimensions
OutDim == config.grid_config.output_coordinate_dim
BaseResolution == config.grid_config.resolution
Ready == pc = "ready"

(* the two preconditions of construction *)
Preconditions == Len(BaseResolution) = D /\ K <= D

(* the forward call the caller holds was made on points of dimension dim *)
PointDim == Len(out.pts[1])
NumPoints == Len(out.pts)

(* C(n, k) by Pascal's rule *)
RECURSIVE Binomial(_, _)
Binomial(n, k) ==
    IF k = 0 THEN 1
    ELSE IF n = 0 THEN 0
    ELSE Binomial(n - 1, k - 1) + Binomial(n - 1, k)

StrictlyIncreasing(t) == \A i \in 1..(Len(t) - 1) : t[i] < t[i + 1]

(* a comes before b in lexicographic order (tuples of equal length) *)
LexLess(a, b) ==
    \E i \in 1..Len(a) : a[i] < b[i] /\ \A j \in 1..(i - 1) : a[j] = b[j]

(* entry (point n, column c) of the feature batch forward returned *)
OutAt(n, c) == out.value.data[(n - 1) * out.value.shape[2] + c]

(* C1: after construction from a configuration that meets the            *)
(* preconditions, n_output_dims is out_dim when features are summed and   *)
(* out_dim times the number of scales the encoder owns when they are      *)
(* concatenated, also when multiscale_res is unset or empty.              *)
C1_NOutputDimsMatchesScales ==
    (pc # "new" /\ Preconditions) =>
        /\ Ready
        /\ n_output_dims = IF config.concat_features_across_scales
                           THEN OutDim * Len(grids) ELSE OutDim

(* C2: forward on a batch of shape [N, D], for K in {2, 3}, returns a     *)
(* tensor of shape exactly [N, n_output_dims].                            *)
C2_ForwardShape ==
    (out.called /\ K \in {2, 3} /\ PointDim = D) =>
        /\ out.status = "ok"
        /\ out.value.kind = "tensor"
        /\ out.value.shape = <<NumPoints, n_output_dims>>

(* C3: forward on points whose dimensionality differs from the            *)
(* construction-time D fails; it returns no result.                       *)
C3_DimensionMismatchFails ==
    (out.called /\ PointDim # D) => out.status # "ok"

(* C4: construction fails (any exception __init__ raises is taken as the  *)
(* configuration error) and yields no encoder whenever a precondition is  *)
(* violated, and allocates the planes without raising otherwise.          *)
C4_ConstructionPreconditions ==
    pc # "new" =>
        /\ ~Preconditions => (pc = "failed" /\ init_error # "none" /\ grids = <<>>)
        /\ Preconditions => (Ready /\ init_error = "none" /\ grids # <<>>)

ExpectedResolution(m) ==
    [i \in 1..Len(BaseResolution) |->
        IF i \in {1, 2, 3} THEN m * BaseResolution[i] ELSE BaseResolution[i]]

(* C6: every scale is built with the base resolution whose entries 0..2   *)
(* are multiplied by the scale's multiplier and whose other entries are   *)
(* kept; multipliers do not compound, and the stored grid_config is the   *)
(* configured one after construction.                                     *)
C6_ResolutionScaling ==
    Ready =>
        /\ grid_config = config.grid_config
        /\ Len(grids) = Len(multiscale_res_multipliers)
        /\ \A s \in 1..Len(grids) : \A i \in 1..Len(grids[s]) :
              LET plane == grids[s][i]
                  r     == ExpectedResolution(multiscale_res_multipliers[s])
              IN  \A j \in 1..K : plane.shape[2 + j] = r[plane.comb[K + 1 - j] + 1]

C6_Witness ==
    /\ Ready /\ D = 4 /\ K = 2
    /\ multiscale_res_multipliers = <<2, 1>>
    /\ grids[1][3].comb = <<0, 3>> /\ grids[1][3].shape = <<1, OutDim, 1, 4>>
    /\ grids[2][3].shape = <<1, OutDim, 1, 2>>

(* C7: every scale holds C(D, K) planes, one per K-subset of the axes in  *)
(* lexicographic order, the same list in every scale; plane i has shape   *)
(* [1, out_dim, r[c_K-1], .., r[c_0]]; and forward on points of dimension *)
(* D samples plane i with the combination it was allocated for.           *)
C7_CombinationsAndPairing ==
    Ready =>
        /\ \A s \in 1..Len(grids) :
              /\ Len(grids[s]) = Binomial(D, K)
              /\ \A i \in 1..Len(grids[s]) :
                    LET c == grids[s][i].comb
                        r == ExpectedResolution(multiscale_res_multipliers[s])
                    IN  /\ Len(c) = K
                        /\ StrictlyIncreasing(c)
                        /\ Range(c) \subseteq 0..(D - 1)
                        /\ i > 1 => LexLess(grids[s][i - 1].comb, c)
                        /\ c = grids[1][i].comb
                        /\ grids[s][i].shape =
                             <<1, OutDim>> \o [j \in 1..K |-> r[c[K + 1 - j] + 1]]
        /\ (D = 3 /\ K = 2) =>
              [i \in 1..3 |-> grids[1][i].comb] = << <<0, 1>>, <<0, 2>>, <<1, 2>> >>
        /\ (out.called /\ PointDim = D) =>
              \A v \in 1..Len(out.visited) :
                 grids[out.visited[v].scale_id + 1][out.visited[v].ci + 1].comb
                    = out.visited[v].comb

C7_Witness ==
    /\ Ready /\ D = 4 /\ K = 2 /\ Len(grids) = 2 /\ Len(grids[2]) = 6
    /\ out.called /\ PointDim = D /\ out.status = "ok"
    /\ Len(out.visited) = 12
    /\ out.visited[12].comb = <<2, 3>>

AllCells(plane, vals) == \A j \in 1..Len(plane.data) : plane.data[j] \in vals

(* C8: as constructed, a plane is all ones exactly when D = 4 and axis 3  *)
(* is in its combination; every other plane holds values from [0.1, 0.5]. *)
(* (params is still unset, so no optimizer has touched the planes.)       *)
C8_Initialization ==
    (Ready /\ params = NoParams) =>
        \A s \in 1..Len(grids) : \A i \in 1..Len(grids[s]) :
            LET plane == grids[s][i]
            IN  /\ plane.data # <<>>
                /\ IF D = 4 /\ 3 \in Range(plane.comb)
                   THEN AllCells(plane, {One})
                   ELSE AllCells(plane, UniformA..UniformB)
                /\ AllCells(plane, {One}) <=> (D = 4 /\ 3 \in Range(plane.comb))

C8_Witness ==
    /\ Ready /\ params = NoParams /\ D = 4 /\ K = 2 /\ Len(grids) = 2
    /\ \A s \in 1..2 :
          /\ \A i \in {3, 5, 6} : AllCells(grids[s][i], {One})
          /\ \A i \in {1, 2, 4} : AllCells(grids[s][i], UniformA..UniformB)

(* what plane i of scale s holds at point n of the batch, channel c, read *)
(* with the combination the plane was allocated for                       *)
PlaneSampleAt(s, i, n, c) ==
    LET plane == grids[s][i]
    IN  CellValue(plane.shape, plane.data, c,
                  [j \in 1..Len(plane.comb) |-> out.pts[n][plane.comb[j] + 1]])

RECURSIVE PlaneProduct(_, _, _, _)
PlaneProduct(s, i, n, c) ==
    IF i = 0 THEN 1 ELSE PlaneProduct(s, i - 1, n, c) * PlaneSampleAt(s, i, n, c)

ScaleFeature(s, n, c) == PlaneProduct(s, Len(grids[s]), n, c)

RECURSIVE ScaleSum(_, _, _)
ScaleSum(s, n, c) ==
    IF s = 0 THEN 0 ELSE ScaleSum(s - 1, n, c) + ScaleFeature(s, n, c)

(* C9: per scale the feature of a point is the product, from 1, of what   *)
(* each of the scale's planes holds there, each plane once; so a scale of *)
(* constant-1 planes gives 1 and a plane that samples to 0 gives 0; the   *)
(* scales are concatenated in construction order, or summed.              *)
C9_ProductOverPlanes ==
    (out.called /\ out.status = "ok" /\ PointDim = D) =>
        /\ out.value.exp = Len(grids[1])
        /\ \A n \in 1..NumPoints : \A c \in 1..OutDim :
              IF concat_features
              THEN \A s \in 1..Len(grids) :
                     LET f == OutAt(n, (s - 1) * OutDim + c)
                     IN  /\ f = ScaleFeature(s, n, c)
                         /\ (\A i \in 1..Len(grids[s]) : AllCells(grids[s][i], {One}))
                               => f = Pow10(out.value.exp)
                         /\ (\E i \in 1..Len(grids[s]) : PlaneSampleAt(s, i, n, c) = 0)
                               => f = 0
              ELSE OutAt(n, c) = ScaleSum(Len(grids), n, c)

C9_Witness ==
    /\ out.called /\ out.status = "ok" /\ PointDim = D /\ D = 3 /\ K = 2
    /\ concat_features /\ Len(grids) = 2 /\ NumPoints = 2
    /\ grids[1][1].data[1] = 0
    /\ OutAt(1, 1) = 0
    /\ OutAt(2, 1) = Pow10(3)
    /\ OutAt(1, OutDim + 1) = Pow10(3)

(* the parameter list in scale-major, combination-minor order *)
ExpectedField ==
    LET P == Binomial(D, K)
    IN  [j \in 1..(Len(grids) * P) |->
           [scale_id |-> (j - 1) \div P, ci |-> (j - 1) % P]]

(* C10: a forward or get_params call leaves the encoder as it was; a      *)
(* repeated forward call on the same points returns the same result; and  *)
(* get_params hands out the planes themselves, by identity, scale by      *)
(* scale and combination by combination, under the key "field".           *)
C10_CallsLeaveEncoderUnchanged ==
    [][ ((out'.called /\ ForwardOn(out'.pts)) \/ GetParams) =>
          /\ grids' = grids
          /\ n_output_dims' = n_output_dims
          /\ grid_config' = grid_config
          /\ multiscale_res_multipliers' = multiscale_res_multipliers
          /\ concat_features' = concat_features
          /\ rng' = rng
          /\ (out.called /\ out'.pts = out.pts) => out' = out
          /\ params' # params =>
                /\ DOMAIN params' = {"field"}
                /\ params'.field = ExpectedField
                /\ \A j \in 1..Len(params'.field) :
                      /\ params'.field[j].scale_id + 1 \in 1..Len(grids)
                      /\ params'.field[j].ci + 1
                            \in 1..Len(grids[params'.field[j].scale_id + 1]) ]_vars

C10_Witness ==
    /\ out.called /\ out.status = "ok" /\ PointDim = D
    /\ params.field = ExpectedField /\ Len(params.field) = 12
    /\ grids[1][1].data[1] \in UniformA..UniformB

====
